---- MODULE Spec2Model ----
(***************************************************************************)
(* A model of these pieces of taurusgroup/multi-party-sig:                  *)
(*   - the FROST sign StartFuncs (StartSign, StartSignTaproot),            *)
(*   - CMP sign round 2 (VerifyMessage, StoreMessage, Finalize), with the  *)
(*     tasks of Finalize as one step and as steps of the worker pool,      *)
(*   - CMP sign round 2 of the cmp-ecdsa API (ProcessMessage,              *)
(*     GenerateMessages),                                                  *)
(*   - CMP keygen round 4 (VerifyMessage, StoreMessage, Finalize),         *)
(*   - the evaluation of a polynomial,                                     *)
(*   - the validity check of a pb.Message.                                 *)
(* A session runs one of them; `proto` says which one this behaviour is.   *)
(***************************************************************************)
EXTENDS Integers, Sequences, FiniteSets, TLC

VARIABLES
  proto,     \* what this behaviour runs: "frost", "cmp/sign", "cmp/keygen", ...
  startIn,   \* FROST: the arguments the StartFunc was built from
  startOut,  \* FROST: what the StartFunc returned
  rnd,       \* CMP: the session's current round
  received,  \* CMP: the senders whose message of this round is stored
  arrival,   \* CMP: those senders, in the order their messages were stored
  last,      \* CMP: the last call the driver made, its message and its error
  status,    \* CMP: "running", "advanced" (next round reached) or "aborted"
  out,       \* the messages on the out channel
  poly,      \* polynomial: the polynomial and its last evaluation
  pool,      \* CMP sign: the worker pool's tasks during Finalize of round 2
  pb         \* pb: the message and what IsValid returned for it

\* ------------------------------------------------------------------ bounds

\* Party identifiers are 1..MaxID, ordered as the integers are.
MaxID == 3
\* The number of ciphertext values a message may carry.
NumCiphertexts == 2
\* The longest signer list handed to a StartFunc.
MaxSigners == 3
\* The largest threshold of a key generation result.
MaxThreshold == 2
\* The largest degree of a polynomial that is evaluated.
MaxDegree == 2
\* The largest integer an evaluation index is made from.
MaxIndex == 11
\* The largest number of content fields a pb.Message has populated.
MaxPopulated == 2

IDs == 1..MaxID

\* The absent value of a Go pointer, map entry or interface.
Nil == [nil |-> TRUE]
\* The nil error.
NoError == "<nil>"

\* --------------------------------------------------------------- sequences

Range(s) == {s[i] : i \in 1..Len(s)}

SeqsUpTo(S, n) == UNION {[1..k -> S] : k \in 0..n}

RECURSIVE InsertSorted(_, _)
InsertSorted(x, s) ==
  IF s = <<>> THEN <<x>>
  ELSE IF x <= Head(s) THEN <<x>> \o s
  ELSE <<Head(s)>> \o InsertSorted(x, Tail(s))

RECURSIVE SortIDs(_)
SortIDs(s) == IF s = <<>> THEN <<>> ELSE InsertSorted(Head(s), SortIDs(Tail(s)))

IsSorted(s) == \A i \in 1..Len(s) : \A j \in 1..Len(s) : i < j => s[i] <= s[j]

HasDuplicates(s) == \E i \in 1..Len(s) : \E j \in 1..Len(s) : i # j /\ s[i] = s[j]

\* ----------------------------------------------------- FROST sign: start

protocolID == "frost/sign-threshold"
protocolRounds == 3

\* party.NewIDSlice: a sorted copy of the list; nothing is removed.
NewIDSlice(partyIDs) == SortIDs(partyIDs)

\* round.NewHelper: refuses a roster with a repeated party or without self;
\* the SSID inputs are the protocol ID, the group, the sorted roster and the
\* auxiliary domain-separated values.
NewHelper(pid, group, finalRound, selfID, partyIDs, aux) ==
  LET sorted == NewIDSlice(partyIDs) IN
  IF HasDuplicates(sorted) THEN [helper |-> Nil, err |-> "session: partyIDs invalid"]
  ELSE IF selfID \notin Range(sorted)
    THEN [helper |-> Nil, err |-> "session: selfID not included in partyIDs"]
  ELSE [helper |-> [protocolID |-> pid, group |-> group, finalRound |-> finalRound,
                    selfID |-> selfID, partyIDs |-> sorted, aux |-> aux],
        err |-> NoError]

\* The toy curve y^2 = x^3 + 7 over the field of FieldP elements.
FieldP == 7

OnCurve(x, y) == (y * y) % FieldP = (x * x * x + 7) % FieldP

\* curve.Secp256k1.LiftX: the point with this x coordinate and an even y, or an
\* error when no point of the curve has this x coordinate.
LiftX(x) ==
  LET ys == {y \in 0..(FieldP - 1) : OnCurve(x, y) /\ y % 2 = 0} IN
  IF ys = {} THEN [point |-> Nil, err |-> "secp256k1: invalid x coordinate"]
  ELSE [point |-> [x |-> x, y |-> CHOOSE y \in ys : TRUE], err |-> NoError]

NoCall == [called |-> FALSE]

\* What a StartFunc returns, and the call to round.NewHelper it made (or NoCall).
StartResult(first, info, err, call) ==
  [round |-> first, info |-> info, err |-> err, call |-> call]

\* Mutant: the list is handed on in the caller's order.
sortedIDs_Unsorted(signers) == signers

sortedIDs(signers) == NewIDSlice(signers)

\* Mutant: the flag byte is never set.
taprootFlag_NeverSet(taproot) == 0

taprootFlag(taproot) == IF taproot THEN 1 ELSE 0

\* Mutant: the threshold check is off by one.
insufficientSigners_OffByOne(result, ids) == result.Threshold > Len(ids)

insufficientSigners(result, ids) == result.Threshold + 1 > Len(ids)

\* Mutant: the error of round.NewHelper is not looked at.
helperFailed_Ignored(h) == FALSE

helperFailed(h) == h.err # NoError

startSignCommon(taproot, err, result, signers, messageHash) ==
  LET group == result.Curve
      ids == sortedIDs(signers)
      aux == [TheDomain |-> "Taproot Flag", Bytes |-> <<taprootFlag(taproot)>>]
      call == [called |-> TRUE, protocolID |-> protocolID, group |-> group,
               rounds |-> protocolRounds, selfID |-> result.ID,
               partyIDs |-> ids, aux |-> aux]
      h == NewHelper(protocolID, group, protocolRounds, result.ID, ids, aux)
  IN
  IF err # NoError THEN StartResult(Nil, Nil, err, NoCall)
  ELSE IF helperFailed(h)
    THEN StartResult(Nil, Nil, "sign.StartSign: " \o h.err, call)
  ELSE IF insufficientSigners(result, ids)
    THEN StartResult(Nil, Nil, "sign.StartSign: insufficient number of signers", call)
  ELSE StartResult([Helper |-> h.helper, taproot |-> taproot, M |-> messageHash,
                    Y |-> result.PublicKey, YShares |-> result.VerificationShares,
                    s_i |-> result.PrivateShare],
                   h.helper, NoError, call)

StartSign(result, signers, messageHash) ==
  startSignCommon(FALSE, NoError, result, signers, messageHash)

\* The keygen.Result StartSignTaproot builds from a keygen.TaprootResult.
normalResult(result) ==
  [ID |-> result.ID, Threshold |-> result.Threshold, Curve |-> "secp256k1",
   PrivateShare |-> result.PrivateShare, PublicKey |-> LiftX(result.PublicKey).point,
   VerificationShares |-> result.VerificationShares]

\* Mutant: the error of the key lift is dropped.
StartSignTaproot_DropsLiftError(result, signers, messageHash) ==
  startSignCommon(TRUE, NoError, normalResult(result), signers, messageHash)

StartSignTaproot(result, signers, messageHash) ==
  startSignCommon(TRUE, LiftX(result.PublicKey).err, normalResult(result),
                  signers, messageHash)

\* ------------------------------------------------------- Go maps, messages

\* m[k] of a Go map: the zero value (nil) for a key the map does not hold.
MapGet(m, k) == IF k \in DOMAIN m THEN m[k] ELSE Nil

\* m[k] = v of a Go map.
MapSet(m, k, v) == [x \in DOMAIN m \cup {k} |-> IF x = k THEN v ELSE m[x]]

EmptyMap == <<>>

\* The recipient "" of a broadcast.
Broadcast == 0

ErrInvalidContent == "round: invalid content"
ErrNilFields == "round: message contains nil fields"

\* msg.Content.(*T): the body when the content is of round content type T.
ContentIs(content, type) == content # Nil /\ content.type = type

\* ------------------------------------------------------ round.Helper (CMP)

\* The roster of the CMP sessions, in canonical (ascending) order.
PartyIDs == <<1, 2, 3>>

RECURSIVE WithoutID(_, _)
WithoutID(ids, id) ==
  IF ids = <<>> THEN <<>>
  ELSE IF Head(ids) = id THEN WithoutID(Tail(ids), id)
  ELSE <<Head(ids)>> \o WithoutID(Tail(ids), id)

\* Helper.OtherPartyIDs: the roster without self, in roster order.
OtherPartyIDs(r) == WithoutID(r.PartyIDs, r.SelfID)

\* Helper.HashForID: a copy of the transcript that has absorbed the ID.
HashForID(r, id) == [state |-> r.hash, id |-> id]

\* Helper.UpdateHashState: the rolling transcript absorbs the value.
UpdateHashState(r, value) == [r EXCEPT !.hash = @ \o <<value>>]

\* Helper.SendMessage: the message put on the out channel.
OutMessage(r, content, to) ==
  [From |-> r.SelfID, To |-> to, Broadcast |-> (to = Broadcast), Content |-> content]

\* ------------------------------------------------- proofs, Paillier, MtA

\* A ciphertext of plaintext pt; one that is not well formed does not decrypt.
Ciphertext(pt) == [valid |-> TRUE, pt |-> pt]

\* A proof is the statement and the transcript it was made for: Verify accepts
\* it for that statement and transcript and for no other.
zkencNewProof(group, hash, public) ==
  [zk |-> "enc", K |-> public.K, Prover |-> public.Prover, Aux |-> public.Aux,
   hash |-> hash]

zkencVerify(proof, group, hash, public) ==
  proof = zkencNewProof(group, hash, public)

zklogstarNewProof(group, hash, public, private) ==
  [zk |-> "logstar", C |-> public.C, X |-> public.X, Prover |-> public.Prover,
   Aux |-> public.Aux, hash |-> hash]

\* mta.ProveAffG: the sender's beta, the ciphertexts D and F and the aff-g
\* proof against the receiver's encrypted share; beta is the value drawn.
ProveAffG(group, h, senderSecretShare, senderSecretSharePoint, receiverEncryptedShare, sender, receiver, verifier, beta) ==
  LET D == [op |-> "D", x |-> senderSecretShare, K |-> receiverEncryptedShare,
            beta |-> beta, pk |-> receiver]
      F == [op |-> "F", beta |-> beta, pk |-> sender.pk]
  IN [Beta |-> beta, D |-> D, F |-> F,
      Proof |-> [zk |-> "affg", Kv |-> receiverEncryptedShare, Dv |-> D, Fp |-> F,
                 Xp |-> senderSecretSharePoint, Prover |-> sender.pk,
                 Verifier |-> receiver, Aux |-> verifier, hash |-> h]]

\* ----------------------------------------------------- CMP sign, round 2

PaillierOf(j) == [N |-> j]
PedersenOf(j) == [S |-> j, T |-> j]

\* The round 2 that round 1 of party self hands on: its own K and G are in.
NewRound2(self) ==
  [Number |-> 2, SelfID |-> self, PartyIDs |-> PartyIDs, hash |-> <<"ssid">>,
   group |-> "secp256k1",
   Paillier |-> [j \in Range(PartyIDs) |-> PaillierOf(j)],
   Pedersen |-> [j \in Range(PartyIDs) |-> PedersenOf(j)],
   ECDSA |-> [j \in Range(PartyIDs) |-> [X |-> j]],
   SecretECDSA |-> [x |-> self],
   SecretPaillier |-> [sk |-> self, pk |-> PaillierOf(self)],
   K |-> (self :> Ciphertext(0)),
   G |-> (self :> Ciphertext(0)),
   BigGammaShare |-> (self :> [Gamma |-> self]),
   GammaShare |-> [gamma |-> self],
   KShare |-> [k |-> self],
   KNonce |-> [rho |-> self],
   GNonce |-> [nu |-> self]]

\* What a method of a round returns, and the round it leaves behind.
Returned(err, r) == [err |-> err, r |-> r]

\* Mutant: the proof is checked against the Pedersen parameters of the party
\* that verifies, as ProcessMessage of the cmp-ecdsa API did.
round2_zkencPublic_SelfAux(r, msg) ==
  [K |-> msg.Content.body.K, Prover |-> MapGet(r.Paillier, msg.From),
   Aux |-> MapGet(r.Pedersen, r.SelfID)]

\* The statement the enc proof of a round 2 message is checked against.
round2_zkencPublic(r, msg) ==
  [K |-> msg.Content.body.K, Prover |-> MapGet(r.Paillier, msg.From),
   Aux |-> MapGet(r.Pedersen, msg.To)]

\* Mutant: G is not checked for nil.
round2_NilFields_SkipsG(body) == body.ProofEnc = Nil \/ body.K = Nil

round2_NilFields(body) == body.ProofEnc = Nil \/ body.G = Nil \/ body.K = Nil

\* Mutant: a message that verifies is stored at once, as ProcessMessage did.
round2_VerifyMessage_Stores(r, msg) ==
  IF ~ContentIs(msg.Content, "message2") \/ msg.Content.body = Nil
    THEN Returned(ErrInvalidContent, r)
  ELSE IF round2_NilFields(msg.Content.body) THEN Returned(ErrNilFields, r)
  ELSE IF ~zkencVerify(msg.Content.body.ProofEnc, r.group, HashForID(r, msg.From),
                       round2_zkencPublic(r, msg))
    THEN Returned("failed to validate enc proof for K", r)
  ELSE Returned(NoError, [r EXCEPT !.K = MapSet(@, msg.From, msg.Content.body.K),
                                   !.G = MapSet(@, msg.From, msg.Content.body.G)])

round2_VerifyMessage(r, msg) ==
  IF ~ContentIs(msg.Content, "message2") \/ msg.Content.body = Nil
    THEN Returned(ErrInvalidContent, r)
  ELSE IF round2_NilFields(msg.Content.body) THEN Returned(ErrNilFields, r)
  ELSE IF ~zkencVerify(msg.Content.body.ProofEnc, r.group, HashForID(r, msg.From),
                       round2_zkencPublic(r, msg))
    THEN Returned("failed to validate enc proof for K", r)
  ELSE Returned(NoError, r)

\* Mutant: the ciphertexts are stored under the recipient, not the sender.
round2_StoreMessage_UnderRecipient(r, msg) ==
  Returned(NoError, [r EXCEPT !.K = MapSet(@, msg.To, msg.Content.body.K),
                              !.G = MapSet(@, msg.To, msg.Content.body.G)])

\* Mutant: the maps are made anew with the sender's entry alone.
round2_StoreMessage_Replaces(r, msg) ==
  Returned(NoError, [r EXCEPT !.K = (msg.From :> msg.Content.body.K),
                              !.G = (msg.From :> msg.Content.body.G)])

round2_StoreMessage(r, msg) ==
  Returned(NoError, [r EXCEPT !.K = MapSet(@, msg.From, msg.Content.body.K),
                              !.G = MapSet(@, msg.From, msg.Content.body.G)])

\* The beta the worker for peer j draws in one of its two MtA runs.
BetaFor(mta, j) == [beta |-> mta, peer |-> j]

\* The index of the last entry of ids that is id.
LastIndex(ids, id) ==
  CHOOSE i \in 1..Len(ids) : ids[i] = id /\ \A k \in (i + 1)..Len(ids) : ids[k] # id

\* Mutant: the work is done for every party of the roster, self included.
round2_otherIDs_All(r) == r.PartyIDs

round2_otherIDs(r) == OtherPartyIDs(r)

\* Mutant: the MtA runs against the party's own K, not the peer's.
round2_peerK_Own(r, j) == MapGet(r.K, r.SelfID)

round2_peerK(r, j) == MapGet(r.K, j)

\* The worker's task for peer j: the two MtA runs, the log* proof and the
\* message3 for j (curve.MakeInt keeps the value of the scalar).
round2_mtaTask(r, j) ==
  LET self == r.SelfID
      delta == ProveAffG(r.group, HashForID(r, self), r.GammaShare,
                         MapGet(r.BigGammaShare, self), round2_peerK(r, j),
                         r.SecretPaillier, MapGet(r.Paillier, j),
                         MapGet(r.Pedersen, j), BetaFor("Delta", j))
      chi == ProveAffG(r.group, HashForID(r, self), r.SecretECDSA,
                       MapGet(r.ECDSA, self), round2_peerK(r, j),
                       r.SecretPaillier, MapGet(r.Paillier, j),
                       MapGet(r.Pedersen, j), BetaFor("Chi", j))
      proof == zklogstarNewProof(r.group, HashForID(r, self),
                 [C |-> MapGet(r.G, self), X |-> MapGet(r.BigGammaShare, self),
                  Prover |-> MapGet(r.Paillier, self), Aux |-> MapGet(r.Pedersen, j)],
                 [X |-> r.GammaShare, Rho |-> r.GNonce])
  IN [to |-> j, DeltaBeta |-> delta.Beta, ChiBeta |-> chi.Beta,
      content |-> [type |-> "message3",
                   body |-> [BigGammaShare |-> MapGet(r.BigGammaShare, self),
                             DeltaD |-> delta.D, DeltaF |-> delta.F,
                             DeltaProof |-> delta.Proof,
                             ChiD |-> chi.D, ChiF |-> chi.F, ChiProof |-> chi.Proof,
                             ProofLog |-> proof]]]

\* Mutant: the loop over the results runs on after an error, and the error
\* of the last failing peer is the one returned.
round2_Finalize_LastError(r, sendErr, order) ==
  LET otherIDs == round2_otherIDs(r)
      mtaOuts == [i \in 1..Len(otherIDs) |->
                    LET t == round2_mtaTask(r, otherIDs[i]) IN
                    [err |-> sendErr[otherIDs[i]], DeltaBeta |-> t.DeltaBeta,
                     ChiBeta |-> t.ChiBeta, to |-> t.to, content |-> t.content]]
      done == SelectSeq([k \in 1..Len(otherIDs) |-> mtaOuts[order[k]]],
                        LAMBDA o : o.err = NoError)
      sent == [k \in 1..Len(done) |-> OutMessage(r, done[k].content, done[k].to)]
      failing == {i \in 1..Len(otherIDs) : mtaOuts[i].err # NoError}
  IN
  IF failing # {}
    THEN [session |-> r, sent |-> sent,
          err |-> mtaOuts[CHOOSE i \in failing : \A k \in failing : i >= k].err]
    ELSE [session |-> [Number |-> 3, round2 |-> r,
                       DeltaShareBeta |-> [j \in Range(otherIDs) |->
                                             mtaOuts[LastIndex(otherIDs, j)].DeltaBeta],
                       ChiShareBeta |-> [j \in Range(otherIDs) |->
                                           mtaOuts[LastIndex(otherIDs, j)].ChiBeta],
                       DeltaShareAlpha |-> EmptyMap, ChiShareAlpha |-> EmptyMap],
          sent |-> sent, err |-> NoError]

\* round2.Finalize. sendErr[j] is what SendMessage returns for the message to
\* j; order is the order in which the pool's tasks reach their send.
round2_Finalize(r, sendErr, order) ==
  LET otherIDs == round2_otherIDs(r)
      mtaOuts == [i \in 1..Len(otherIDs) |->
                    LET t == round2_mtaTask(r, otherIDs[i]) IN
                    [err |-> sendErr[otherIDs[i]], DeltaBeta |-> t.DeltaBeta,
                     ChiBeta |-> t.ChiBeta, to |-> t.to, content |-> t.content]]
      done == SelectSeq([k \in 1..Len(otherIDs) |-> mtaOuts[order[k]]],
                        LAMBDA o : o.err = NoError)
      sent == [k \in 1..Len(done) |-> OutMessage(r, done[k].content, done[k].to)]
      failing == {i \in 1..Len(otherIDs) : mtaOuts[i].err # NoError}
  IN
  IF failing # {}
    THEN [session |-> r, sent |-> sent,
          err |-> mtaOuts[CHOOSE i \in failing : \A k \in failing : i <= k].err]
    ELSE [session |-> [Number |-> 3, round2 |-> r,
                       DeltaShareBeta |-> [j \in Range(otherIDs) |->
                                             mtaOuts[LastIndex(otherIDs, j)].DeltaBeta],
                       ChiShareBeta |-> [j \in Range(otherIDs) |->
                                           mtaOuts[LastIndex(otherIDs, j)].ChiBeta],
                       DeltaShareAlpha |-> EmptyMap, ChiShareAlpha |-> EmptyMap],
          sent |-> sent, err |-> NoError]

\* Mutant: the result of task idx is filed under the next peer.
round2_joinKey_Shifted(otherIDs, idx) == otherIDs[(idx % Len(otherIDs)) + 1]

\* The peer under whose ID the loop after Parallelize files result idx.
round2_joinKey(otherIDs, idx) == otherIDs[idx]

\* The loop after Parallelize, from result idx on: it stops at the first
\* result that carries an error.
RECURSIVE round2_joinLoop(_, _, _, _, _)
round2_joinLoop(otherIDs, mtaOuts, idx, DeltaShareBetas, ChiShareBetas) ==
  IF idx > Len(mtaOuts)
    THEN [err |-> NoError, DeltaShareBetas |-> DeltaShareBetas,
          ChiShareBetas |-> ChiShareBetas]
  ELSE IF mtaOuts[idx].err # NoError
    THEN [err |-> mtaOuts[idx].err, DeltaShareBetas |-> DeltaShareBetas,
          ChiShareBetas |-> ChiShareBetas]
  ELSE round2_joinLoop(otherIDs, mtaOuts, idx + 1,
         MapSet(DeltaShareBetas, round2_joinKey(otherIDs, idx), mtaOuts[idx].DeltaBeta),
         MapSet(ChiShareBetas, round2_joinKey(otherIDs, idx), mtaOuts[idx].ChiBeta))

\* What Finalize returns once Parallelize has handed back the results.
round2_join(r, mtaOuts) ==
  LET l == round2_joinLoop(round2_otherIDs(r), mtaOuts, 1, EmptyMap, EmptyMap) IN
  IF l.err # NoError THEN [session |-> r, err |-> l.err]
  ELSE [session |-> [Number |-> 3, round2 |-> r,
                     DeltaShareBeta |-> l.DeltaShareBetas,
                     ChiShareBeta |-> l.ChiShareBetas,
                     DeltaShareAlpha |-> EmptyMap, ChiShareAlpha |-> EmptyMap],
        err |-> NoError]

\* pool.Parallelize: result i is what task i returned, and the call returns
\* when every task has returned.
PoolIdle == [phase |-> "idle"]

PoolStarted(count) ==
  [phase |-> "running", results |-> [i \in 1..count |-> Nil], done |-> <<>>]

PoolJoined(p) == \A i \in DOMAIN p.results : p.results[i] # Nil

\* ------------------------------------ CMP sign, round 2 (cmp-ecdsa API)

\* hash.Hash.WriteAny and hash.Hash.ReadBytes: the transcript is the sequence
\* of what it absorbed, and the digest stands for that sequence.
HashWriteAny(h, items) == h \o items

HashReadBytes(h) == [digest |-> h]

ErrRound2ZKEnc == "sign.round2: ErrRound2ZKEnc"

\* sign.NewMtA and MtA.ProofAffG: the MtA against the receiver's K, and the
\* message part made from it on transcript fork h.
NewMtA(secret, point, K, sender, receiver) ==
  [Secret |-> secret, Point |-> point, K |-> K, Sender |-> sender,
   Receiver |-> receiver]

MtAProofAffG(mta, h) ==
  [D |-> [op |-> "D", x |-> mta.Secret, K |-> mta.K, pk |-> mta.Receiver.Paillier],
   Proof |-> [zk |-> "affg", Kv |-> mta.K, Xp |-> mta.Point,
              Prover |-> mta.Sender.Paillier, Verifier |-> mta.Receiver.Paillier,
              Aux |-> mta.Receiver.Pedersen, hash |-> h]]

\* The round 2 that round 1 of party self hands on: the K and G of self are set.
NewRound2Legacy(self) ==
  [Number |-> 2, SelfID |-> self, PartyIDs |-> PartyIDs, hash |-> <<"ssid">>,
   group |-> "secp256k1",
   Parties |-> [j \in Range(PartyIDs) |->
                  [ID |-> j,
                   Public |-> [Paillier |-> PaillierOf(j), Pedersen |-> PedersenOf(j)],
                   ECDSA |-> [X |-> j],
                   K |-> IF j = self THEN Ciphertext(0) ELSE Nil,
                   G |-> IF j = self THEN Ciphertext(0) ELSE Nil,
                   BigGammaShare |-> IF j = self THEN [Gamma |-> j] ELSE Nil,
                   DeltaMtA |-> Nil, ChiMtA |-> Nil]],
   Secret |-> [ECDSA |-> [x |-> self]],
   GammaShare |-> [gamma |-> self],
   GNonce |-> [nu |-> self],
   EchoHash |-> Nil]

\* r.Self: the party's own entry of r.Parties.
Self(r) == r.Parties[r.SelfID]

round2_ProcessMessage(r, from, content) ==
  LET body == content.body
      partyJ == r.Parties[from]
  IN
  IF ~zkencVerify(body.ProofEnc, r.group, HashForID(r, from),
                  [K |-> body.K, Prover |-> partyJ.Public.Paillier,
                   Aux |-> Self(r).Public.Pedersen])
    THEN Returned(ErrRound2ZKEnc, r)
  ELSE Returned(NoError, [r EXCEPT !.Parties[from].K = body.K,
                                   !.Parties[from].G = body.G])

\* Mutant: the echo hash absorbs the parties in the order the map yields them.
round2_echoIDs_MapOrder(r, iter) == iter

\* The order in which the echo hash absorbs the parties; iter is the order in
\* which `range r.Parties` yields the keys of the map.
round2_echoIDs(r, iter) == r.PartyIDs

\* The first loop of GenerateMessages: h absorbs (K, G) of each party of ids.
RECURSIVE round2_absorb(_, _, _)
round2_absorb(h, r, ids) ==
  IF ids = <<>> THEN h
  ELSE round2_absorb(HashWriteAny(h, <<r.Parties[Head(ids)].K, r.Parties[Head(ids)].G>>),
                     r, Tail(ids))

\* The Sign3 message for party j, once the MtAs of j are set.
round2_Sign3(r, j) ==
  LET partyJ == r.Parties[j]
      proofLog == zklogstarNewProof(r.group, HashForID(r, Self(r).ID),
                    [C |-> Self(r).G, X |-> Self(r).BigGammaShare,
                     Prover |-> Self(r).Public.Paillier,
                     Aux |-> partyJ.Public.Pedersen],
                    [X |-> r.GammaShare, Rho |-> r.GNonce])
  IN OutMessage(r, [type |-> "Sign3",
                    body |-> [EchoHash |-> r.EchoHash,
                              BigGammaShare |-> Self(r).BigGammaShare,
                              DeltaMtA |-> MtAProofAffG(partyJ.DeltaMtA,
                                                        HashForID(r, Self(r).ID)),
                              ChiMtA |-> MtAProofAffG(partyJ.ChiMtA,
                                                      HashForID(r, Self(r).ID)),
                              ProofLog |-> proofLog]],
                partyJ.ID)

\* The second loop of GenerateMessages over the parties still to visit: it
\* stops at the first send that fails.
RECURSIVE round2_sendLoop(_, _, _, _)
round2_sendLoop(r, ids, sendErr, sent) ==
  IF ids = <<>> THEN [r |-> r, sent |-> sent, err |-> NoError]
  ELSE IF Head(ids) = Self(r).ID THEN round2_sendLoop(r, Tail(ids), sendErr, sent)
  ELSE
    LET j == Head(ids)
        partyJ == r.Parties[j]
        r1 == [r EXCEPT
                 !.Parties[j].DeltaMtA =
                    NewMtA(r.GammaShare, Self(r).BigGammaShare, partyJ.K,
                           Self(r).Public, partyJ.Public),
                 !.Parties[j].ChiMtA =
                    NewMtA(r.Secret.ECDSA, Self(r).ECDSA, partyJ.K,
                           Self(r).Public, partyJ.Public)]
    IN
    IF sendErr[j] # NoError THEN [r |-> r1, sent |-> sent, err |-> sendErr[j]]
    ELSE round2_sendLoop(r1, Tail(ids), sendErr, Append(sent, round2_Sign3(r1, j)))

\* round2.GenerateMessages. iter is the order in which `range r.Parties` yields
\* the parties; sendErr[j] is what SendMessage returns for the message to j.
round2_GenerateMessages(r, iter, sendErr) ==
  LET h == round2_absorb(r.hash, r, round2_echoIDs(r, iter))
      r0 == [r EXCEPT !.EchoHash = HashReadBytes(h)]
  IN round2_sendLoop(r0, iter, sendErr, <<>>)

\* ------------------------------------------------- the group (toy size)

\* The subgroup of order GroupOrder of the integers modulo GroupModulus,
\* generated by GroupBase; a point is written multiplicatively.
GroupOrder == 5
GroupModulus == 11
GroupBase == 4

RECURSIVE PowMod(_, _, _)
PowMod(b, e, m) == IF e = 0 THEN 1 % m ELSE (b * PowMod(b, e - 1, m)) % m

Scalar(n) == [s |-> n % GroupOrder]
Point(n) == [pt |-> n]

\* Scalar.ActOnBase: [s]G.
ActOnBase(s) == Point(PowMod(GroupBase, s.s, GroupModulus))

\* Point.Add.
PointAdd(P, Q) == Point((P.pt * Q.pt) % GroupModulus)

\* Scalar.Act: [s]P.
ScalarAct(s, P) == Point(PowMod(P.pt, s.s, GroupModulus))

\* party.ID.Scalar.
IDScalar(id) == Scalar(id)

\* polynomial.Exponent.Evaluate: F(x) = A_0 + [x]A_1 + [x^2]A_2 + ...
RECURSIVE ExponentEvaluate(_, _)
ExponentEvaluate(F, x) ==
  IF F = <<>> THEN Point(1)
  ELSE PointAdd(Head(F), ScalarAct(x, ExponentEvaluate(Tail(F), x)))

\* Mutant: Horner's rule run from the constant term up, which evaluates the
\* polynomial with its coefficients reversed.
RECURSIVE PolynomialEvaluate_Reversed(_, _)
PolynomialEvaluate_Reversed(f, x) ==
  IF f = <<>> THEN Scalar(0)
  ELSE Scalar(f[Len(f)].s + x.s * PolynomialEvaluate_Reversed(SubSeq(f, 1, Len(f) - 1), x).s)

\* polynomial.Polynomial.Evaluate: f(x) = c_0 + c_1 x + c_2 x^2 + ...
RECURSIVE PolynomialEvaluate(_, _)
PolynomialEvaluate(f, x) ==
  IF f = <<>> THEN Scalar(0)
  ELSE Scalar(Head(f).s + x.s * PolynomialEvaluate(Tail(f), x).s)

\* paillier.SecretKey.Dec: the plaintext, or an error for a ciphertext that is
\* not well formed.
PaillierDec(sk, ct) ==
  IF ~ct.valid THEN [err |-> "paillier: failed to decrypt", pt |-> 0]
  ELSE [err |-> NoError, pt |-> ct.pt]

zkmodNewProof(hash, public) == [zk |-> "mod", N |-> public.N, hash |-> hash]

zkmodVerify(proof, public, hash) == proof = zkmodNewProof(hash, public)

zkprmNewProof(hash, public) ==
  [zk |-> "prm", N |-> public.N, S |-> public.S, T |-> public.T, hash |-> hash]

zkprmVerify(proof, public, hash) == proof = zkprmNewProof(hash, public)

\* --------------------------------------------------- CMP keygen, round 4

\* The secret polynomial of party j (constant term 0 in a refresh) and the
\* polynomial in the exponent it broadcast.
SecretPolynomial(j, refresh) ==
  <<Scalar(IF refresh THEN 0 ELSE j), Scalar(j + 1)>>

VSSPolynomialOf(j, refresh) ==
  [k \in 1..Len(SecretPolynomial(j, refresh)) |->
     ActOnBase(SecretPolynomial(j, refresh)[k])]

\* The share party j owes party i.
ShareFor(j, i, refresh) == PolynomialEvaluate(SecretPolynomial(j, refresh), IDScalar(i))

\* The round 4 that round 3 of party self hands on: its own share is in.
NewRound4(self, refresh) ==
  [Number |-> 4, SelfID |-> self, PartyIDs |-> PartyIDs, hash |-> <<"ssid">>,
   group |-> "secp256k1", Threshold |-> 1,
   NModulus |-> [j \in Range(PartyIDs) |-> [N |-> j]],
   S |-> [j \in Range(PartyIDs) |-> [S |-> j]],
   T |-> [j \in Range(PartyIDs) |-> [T |-> j]],
   ElGamalPublic |-> [j \in Range(PartyIDs) |-> [Y |-> j]],
   ElGamalSecret |-> [y |-> self],
   PaillierSecret |-> [sk |-> self, P |-> [p |-> self], Q |-> [q |-> self]],
   VSSPolynomials |-> [j \in Range(PartyIDs) |-> VSSPolynomialOf(j, refresh)],
   ShareReceived |-> (self :> ShareFor(self, self, refresh)),
   PreviousSecretECDSA |-> IF refresh THEN Scalar(self + 1) ELSE Nil,
   PreviousPublicSharesECDSA |->
     IF refresh THEN [j \in Range(PartyIDs) |-> ActOnBase(Scalar(j + 1))] ELSE Nil,
   SchnorrRand |-> [a |-> self],
   RID |-> [rid |-> "rid"], ChainKey |-> [chainKey |-> "ck"]]

round4_NilFields(body) == body.Mod = Nil \/ body.Prm = Nil \/ body.Share = Nil

\* The statements the proofs of a round 4 message are checked against.
round4_zkmodPublic(r, from) == [N |-> MapGet(r.NModulus, from)]

round4_zkprmPublic(r, from) ==
  [N |-> MapGet(r.NModulus, from), S |-> MapGet(r.S, from), T |-> MapGet(r.T, from)]

round4_VerifyMessage(r, msg) ==
  IF ~ContentIs(msg.Content, "message4") \/ msg.Content.body = Nil
    THEN Returned(ErrInvalidContent, r)
  ELSE IF round4_NilFields(msg.Content.body) THEN Returned(ErrNilFields, r)
  ELSE IF ~zkmodVerify(msg.Content.body.Mod, round4_zkmodPublic(r, msg.From),
                       HashForID(r, msg.From))
    THEN Returned("failed to validate mod proof", r)
  ELSE IF ~zkprmVerify(msg.Content.body.Prm, round4_zkprmPublic(r, msg.From),
                       HashForID(r, msg.From))
    THEN Returned("failed to validate prm proof", r)
  ELSE Returned(NoError, r)

\* Mutant: the decrypted share is reduced without the check for overflow.
round4_StoreMessage_NoRangeCheck(r, msg) ==
  LET from == msg.From
      body == msg.Content.body
      dec == PaillierDec(r.PaillierSecret, body.Share)
      Share == Scalar(dec.pt)
      ExpectedPublicShare ==
        ExponentEvaluate(MapGet(r.VSSPolynomials, from), IDScalar(r.SelfID))
      PublicShare == ActOnBase(Share)
  IN
  IF dec.err # NoError THEN Returned(dec.err, r)
  ELSE IF PublicShare # ExpectedPublicShare
    THEN Returned("failed to validate VSS share", r)
  ELSE Returned(NoError, [r EXCEPT !.ShareReceived = MapSet(@, from, Share)])

round4_StoreMessage(r, msg) ==
  LET from == msg.From
      body == msg.Content.body
      dec == PaillierDec(r.PaillierSecret, body.Share)
      Share == Scalar(dec.pt)
      ExpectedPublicShare ==
        ExponentEvaluate(MapGet(r.VSSPolynomials, from), IDScalar(r.SelfID))
      PublicShare == ActOnBase(Share)
  IN
  IF dec.err # NoError THEN Returned(dec.err, r)
  ELSE IF dec.pt # Share.s
    THEN Returned("decrypted share is not in correct range", r)
  ELSE IF PublicShare # ExpectedPublicShare
    THEN Returned("failed to validate VSS share", r)
  ELSE Returned(NoError, [r EXCEPT !.ShareReceived = MapSet(@, from, Share)])

\* Mutant: a refresh starts the new secret from zero.
round4_UpdatedSecretECDSA_NoPrevious(r) ==
  LET RECURSIVE AddShares(_, _)
      AddShares(acc, ids) ==
        IF ids = <<>> THEN acc
        ELSE AddShares(Scalar(acc.s + MapGet(r.ShareReceived, Head(ids)).s), Tail(ids))
  IN AddShares(Scalar(0), r.PartyIDs)

\* The new secret: the previous one, if any, plus the share received from
\* every party of the roster.
round4_UpdatedSecretECDSA(r) ==
  LET RECURSIVE AddShares(_, _)
      AddShares(acc, ids) ==
        IF ids = <<>> THEN acc
        ELSE AddShares(Scalar(acc.s + MapGet(r.ShareReceived, Head(ids)).s), Tail(ids))
  IN AddShares(IF r.PreviousSecretECDSA # Nil THEN r.PreviousSecretECDSA ELSE Scalar(0),
               r.PartyIDs)

\* polynomial.Sum: the sum, coefficient by coefficient, of polynomials in the
\* exponent of one length.
RECURSIVE PolynomialSum(_)
PolynomialSum(polynomials) ==
  IF Len(polynomials) = 1 THEN [sum |-> Head(polynomials), err |-> NoError]
  ELSE LET rest == PolynomialSum(Tail(polynomials)) IN
       IF rest.err # NoError THEN rest
       ELSE IF Len(rest.sum) # Len(Head(polynomials))
         THEN [sum |-> Nil, err |-> "q is not the same length as p"]
       ELSE [sum |-> [k \in 1..Len(rest.sum) |->
                        PointAdd(Head(polynomials)[k], rest.sum[k])],
             err |-> NoError]

\* [F_1(X), ..., F_n(X)] and their sum F(X).
round4_ShamirPublicPolynomial(r) ==
  PolynomialSum([i \in 1..Len(r.PartyIDs) |-> r.VSSPolynomials[r.PartyIDs[i]]])

\* The public data of every party: X_j = F(j), plus X'_j in a refresh.
round4_PublicData(r, ShamirPublicPolynomial) ==
  [j \in Range(r.PartyIDs) |->
     LET F_j == ExponentEvaluate(ShamirPublicPolynomial, IDScalar(j)) IN
     [ECDSA |-> IF r.PreviousPublicSharesECDSA # Nil
                  THEN PointAdd(F_j, r.PreviousPublicSharesECDSA[j])
                  ELSE F_j,
      ElGamal |-> r.ElGamalPublic[j], N |-> r.NModulus[j], S |-> r.S[j],
      T |-> r.T[j]]]

round4_UpdatedConfig(r, PublicData) ==
  [Group |-> r.group, Threshold |-> r.Threshold, Public |-> PublicData,
   RID |-> r.RID, ChainKey |-> r.ChainKey, ID |-> r.SelfID,
   ECDSA |-> round4_UpdatedSecretECDSA(r), ElGamal |-> r.ElGamalSecret,
   P |-> r.PaillierSecret.P, Q |-> r.PaillierSecret.Q]

\* zksch.Randomness.Prove: the response for this commitment, transcript,
\* public point and secret.
SchnorrProve(rand, hash, public, secret) ==
  [zk |-> "sch", rand |-> rand, hash |-> hash, public |-> public, secret |-> secret]

\* The message5 of Finalize: the proof is made on a copy of the transcript that
\* has absorbed the updated config and the party's ID.
round4_message5(r, UpdatedConfig) ==
  LET h == HashWriteAny(r.hash, <<UpdatedConfig, r.SelfID>>) IN
  [type |-> "message5",
   body |-> [SchnorrResponse |->
               SchnorrProve(r.SchnorrRand, h, UpdatedConfig.Public[r.SelfID].ECDSA,
                            UpdatedConfig.ECDSA)]]

\* Mutant: the rolling transcript absorbs the updated config before the send.
round4_Finalize_HashBeforeSend(r, sendErr) ==
  LET sum == round4_ShamirPublicPolynomial(r)
      UpdatedConfig == round4_UpdatedConfig(r, round4_PublicData(r, sum.sum))
      updated == UpdateHashState(r, UpdatedConfig)
  IN
  IF sum.err # NoError THEN [session |-> Nil, sent |-> <<>>, err |-> sum.err]
  ELSE IF sendErr # NoError THEN [session |-> updated, sent |-> <<>>, err |-> sendErr]
  ELSE [session |-> [Number |-> 5, round4 |-> updated, UpdatedConfig |-> UpdatedConfig],
        sent |-> <<OutMessage(r, round4_message5(r, UpdatedConfig), Broadcast)>>,
        err |-> NoError]

\* round4.Finalize. sendErr is what SendMessage returns.
round4_Finalize(r, sendErr) ==
  LET sum == round4_ShamirPublicPolynomial(r)
      UpdatedConfig == round4_UpdatedConfig(r, round4_PublicData(r, sum.sum))
  IN
  IF sum.err # NoError THEN [session |-> Nil, sent |-> <<>>, err |-> sum.err]
  ELSE IF sendErr # NoError THEN [session |-> r, sent |-> <<>>, err |-> sendErr]
  ELSE [session |-> [Number |-> 5, round4 |-> UpdateHashState(r, UpdatedConfig),
                     UpdatedConfig |-> UpdatedConfig],
        sent |-> <<OutMessage(r, round4_message5(r, UpdatedConfig), Broadcast)>>,
        err |-> NoError]

\* --------------------------------------------------------- pb.Message

\* The generated getter of a content field (GetRefresh1, GetSign2, ...): the
\* value of that field, nil when the field is not populated.
Get(x, field) == IF field \in DOMAIN x.Content THEN x.Content[field] ELSE Nil

\* Mutant: the case of TypeSign2 looks at the Sign1 content.
Message_IsValid_Sign2ChecksSign1(x) ==
  CASE x.Type = "TypeRefresh1" -> Get(x, "Refresh1") # Nil
    [] x.Type = "TypeRefresh2" -> Get(x, "Refresh2") # Nil
    [] x.Type = "TypeRefresh3" -> Get(x, "Refresh3") # Nil
    [] x.Type = "TypeRefresh4" -> Get(x, "Refresh4") # Nil
    [] x.Type = "TypeSign1" -> Get(x, "Sign1") # Nil
    [] x.Type = "TypeSign2" -> Get(x, "Sign1") # Nil
    [] x.Type = "TypeSign3" -> Get(x, "Sign3") # Nil
    [] x.Type = "TypeSign4" -> Get(x, "Sign4") # Nil
    [] x.Type = "TypeAbort1" -> Get(x, "Abort1") # Nil
    [] x.Type = "TypeAbort2" -> Get(x, "Abort2") # Nil
    [] x.Type = "TypeKeygenOld1" -> Get(x, "KeygenOld1") # Nil
    [] x.Type = "TypeKeygenOld2" -> Get(x, "KeygenOld2") # Nil
    [] x.Type = "TypeKeygenOld3" -> Get(x, "KeygenOld3") # Nil
    [] x.Type = "TypeRefreshOld1" -> Get(x, "RefreshOld1") # Nil
    [] x.Type = "TypeRefreshOld2" -> Get(x, "RefreshOld2") # Nil
    [] x.Type = "TypeRefreshOld3" -> Get(x, "RefreshOld3") # Nil
    [] OTHER -> FALSE

\* Message.IsValid: the switch over x.Type.
Message_IsValid(x) ==
  CASE x.Type = "TypeRefresh1" -> Get(x, "Refresh1") # Nil
    [] x.Type = "TypeRefresh2" -> Get(x, "Refresh2") # Nil
    [] x.Type = "TypeRefresh3" -> Get(x, "Refresh3") # Nil
    [] x.Type = "TypeRefresh4" -> Get(x, "Refresh4") # Nil
    [] x.Type = "TypeSign1" -> Get(x, "Sign1") # Nil
    [] x.Type = "TypeSign2" -> Get(x, "Sign2") # Nil
    [] x.Type = "TypeSign3" -> Get(x, "Sign3") # Nil
    [] x.Type = "TypeSign4" -> Get(x, "Sign4") # Nil
    [] x.Type = "TypeAbort1" -> Get(x, "Abort1") # Nil
    [] x.Type = "TypeAbort2" -> Get(x, "Abort2") # Nil
    [] x.Type = "TypeKeygenOld1" -> Get(x, "KeygenOld1") # Nil
    [] x.Type = "TypeKeygenOld2" -> Get(x, "KeygenOld2") # Nil
    [] x.Type = "TypeKeygenOld3" -> Get(x, "KeygenOld3") # Nil
    [] x.Type = "TypeRefreshOld1" -> Get(x, "RefreshOld1") # Nil
    [] x.Type = "TypeRefreshOld2" -> Get(x, "RefreshOld2") # Nil
    [] x.Type = "TypeRefreshOld3" -> Get(x, "RefreshOld3") # Nil
    [] OTHER -> FALSE

\* ------------------------------------------------------------------ inputs

Digests == {"m1", "m2"}

\* Group public keys of a plain key generation: points of the curve.
PlainKeys == {[x |-> 1, y |-> 1], [x |-> 1, y |-> 6]}

\* X-only public keys of a Taproot key generation, valid or not.
XOnlyKeys == 0..(FieldP - 1)

Results(keys) ==
  {[ID |-> i, Threshold |-> t, Curve |-> "secp256k1", PrivateShare |-> "s_i",
    PublicKey |-> k, VerificationShares |-> "YShares"] :
     i \in IDs, t \in 0..MaxThreshold, k \in keys}

SignerLists == SeqsUpTo(IDs, MaxSigners)

NotStarted == [fn |-> "none"]

\* The StartFunc has not been run.
NotRun == [round |-> Nil, info |-> Nil, err |-> NoError, call |-> NoCall]

\* Senders of messages: the roster and one party outside of it.
Senders == Range(PartyIDs) \cup {Len(PartyIDs) + 1}

Ciphertexts == {Ciphertext(n) : n \in 1..NumCiphertexts}

\* Some element of S other than x.
Other(S, x) == CHOOSE y \in S : y # x

\* The enc proofs a round 2 message from `from` to `to` with ciphertext K may
\* carry: none, the one made for this message, and those made for another
\* ciphertext, under another prover's key, for another recipient's Pedersen
\* parameters, or on another party's transcript fork.
EncProofs(r, from, to, K) ==
  LET make(f, k, p, a) ==
        zkencNewProof(r.group, HashForID(r, f),
                      [K |-> k, Prover |-> MapGet(r.Paillier, p),
                       Aux |-> MapGet(r.Pedersen, a)])
  IN {Nil, make(from, K, from, to), make(from, Other(Ciphertexts, K), from, to),
      make(from, K, Other(Range(PartyIDs), from), to),
      make(from, K, from, Other(Range(PartyIDs), to)),
      make(Other(Range(PartyIDs), from), K, from, to)}

Message2Bodies(r, from, to) ==
  {Nil} \cup
  UNION {{[K |-> K, G |-> G, ProofEnc |-> proof] :
            G \in {Nil, Ciphertext(1)}, proof \in EncProofs(r, from, to, K)} :
         K \in Ciphertexts \cup {Nil}}

\* The round 2 messages that may arrive at the party running round r.
Messages2(r) ==
  UNION {{[From |-> from, To |-> to, Content |-> c] :
            c \in {Nil, [type |-> "message3", body |-> Nil]} \cup
                  {[type |-> "message2", body |-> b] : b \in Message2Bodies(r, from, to)}} :
         from \in Senders, to \in Range(PartyIDs)}

ModProofs(r, from) ==
  {Nil, zkmodNewProof(HashForID(r, from), round4_zkmodPublic(r, from)),
   zkmodNewProof(HashForID(r, from),
                 round4_zkmodPublic(r, Other(Range(PartyIDs), from))),
   zkmodNewProof(HashForID(r, Other(Range(PartyIDs), from)),
                 round4_zkmodPublic(r, from))}

PrmProofs(r, from) ==
  {Nil, zkprmNewProof(HashForID(r, from), round4_zkprmPublic(r, from)),
   zkprmNewProof(HashForID(r, from),
                 [round4_zkprmPublic(r, from) EXCEPT
                    !.S = MapGet(r.S, Other(Range(PartyIDs), from))]),
   zkprmNewProof(HashForID(r, Other(Range(PartyIDs), from)),
                 round4_zkprmPublic(r, from))}

\* The encrypted shares a round 4 message from `from` may carry: none, a
\* ciphertext that does not decrypt, the share owed, the share owed plus or
\* minus the group order, and another share.
EncryptedShares(r, from) ==
  LET h == ShareFor(from, r.SelfID, r.PreviousSecretECDSA # Nil).s IN
  {Nil, [valid |-> FALSE, pt |-> h], Ciphertext(h), Ciphertext(h + GroupOrder),
   Ciphertext(h - GroupOrder), Ciphertext((h + 1) % GroupOrder)}

Message4Bodies(r, from) ==
  {Nil} \cup
  {[Mod |-> mod, Prm |-> prm, Share |-> share] :
     mod \in ModProofs(r, from), prm \in PrmProofs(r, from),
     share \in EncryptedShares(r, from)}

\* The round 4 messages that may arrive at the party running round r.
Messages4(r) ==
  UNION {{[From |-> from, To |-> r.SelfID, Content |-> c] :
            c \in {Nil, [type |-> "message5", body |-> Nil]} \cup
                  {[type |-> "message4", body |-> b] : b \in Message4Bodies(r, from)}} :
         from \in Senders}

\* The enc proofs a Sign2 message from `from` with ciphertext K may carry: the
\* one made for this message and this recipient, and those made for another
\* ciphertext, under another prover's key, for another recipient's Pedersen
\* parameters, or on another party's transcript fork.
Sign2Proofs(r, from, K) ==
  LET make(f, k, p, a) ==
        zkencNewProof(r.group, HashForID(r, f),
                      [K |-> k, Prover |-> r.Parties[p].Public.Paillier,
                       Aux |-> r.Parties[a].Public.Pedersen])
  IN {make(from, K, from, r.SelfID), make(from, Other(Ciphertexts, K), from, r.SelfID),
      make(from, K, Other(Range(PartyIDs), from), r.SelfID),
      make(from, K, from, Other(Range(PartyIDs), r.SelfID)),
      make(Other(Range(PartyIDs), from), K, from, r.SelfID)}

\* The Sign2 messages that may arrive at the party running round r; each has
\* passed Sign2.Validate.
MessagesSign2(r) ==
  UNION {{[From |-> from, To |-> r.SelfID,
           Content |-> [type |-> "Sign2", body |-> [K |-> K, G |-> G, ProofEnc |-> proof]]] :
            G \in Ciphertexts, proof \in Sign2Proofs(r, from, K)} :
         from \in Range(OtherPartyIDs(r)), K \in Ciphertexts}

\* The rounds 2 of party self in which the message of every other party is
\* stored.
RECURSIVE StoreAll(_, _, _)
StoreAll(r, ids, K) ==
  IF ids = <<>> THEN r
  ELSE StoreAll(round2_StoreMessage(r,
                  [From |-> Head(ids), To |-> r.SelfID,
                   Content |-> [type |-> "message2",
                                body |-> [K |-> K[Head(ids)], G |-> Ciphertext(1),
                                          ProofEnc |-> Nil]]]).r,
                Tail(ids), K)

CompleteRounds2(self) ==
  {StoreAll(NewRound2(self), WithoutID(PartyIDs, self), K) :
     K \in [Range(WithoutID(PartyIDs, self)) -> Ciphertexts]}

\* The polynomials that are evaluated: every sequence of at most MaxDegree + 1
\* coefficients; the one of TestPolynomial_Evaluate, x^2 + 1, is among them.
Polynomials == SeqsUpTo({Scalar(n) : n \in 0..(GroupOrder - 1)}, MaxDegree + 1)

TestPolynomial == <<Scalar(1), Scalar(0), Scalar(1)>>

\* A polynomial that has not been evaluated.
NotEvaluated(f) == [coefficients |-> f, evaluated |-> FALSE]

\* The content fields of a pb.Message, and its message types: the type of
\* each content field, the zero value of the enumeration and a value outside
\* of it.
ContentFields ==
  {"Refresh1", "Refresh2", "Refresh3", "Refresh4", "Sign1", "Sign2", "Sign3",
   "Sign4", "Abort1", "Abort2", "KeygenOld1", "KeygenOld2", "KeygenOld3",
   "RefreshOld1", "RefreshOld2", "RefreshOld3"}

MessageTypes == {"Type" \o f : f \in ContentFields} \cup {"TypeInvalid", "99"}

\* The messages handed to IsValid: any type, with at most MaxPopulated content
\* fields populated.
PbMessages ==
  {[Type |-> t, Content |-> [f \in populated |-> [content |-> f]]] :
     t \in MessageTypes,
     populated \in {S \in SUBSET ContentFields : Cardinality(S) <= MaxPopulated}}

\* A message IsValid has not been called on.
NotChecked(x) == [x |-> x, checked |-> FALSE]

\* What SendMessage may return.
SendErrors == {"round: out channel is full", "round: out channel is closed"}

\* ----------------------------------------------------------------- driver

ErrUnknownParty == "handler: sender is not in the roster"
ErrDuplicate == "handler: message is a duplicate"

NoMsg == [From |-> Broadcast, To |-> Broadcast, Content |-> Nil]

Call(op, msg, err, env) == [op |-> op, msg |-> msg, err |-> err, env |-> env]

\* Round.VerifyMessage and Round.StoreMessage of the current round.
VerifyMessage(r, msg) ==
  IF r.Number = 2 THEN round2_VerifyMessage(r, msg) ELSE round4_VerifyMessage(r, msg)

StoreMessage(r, msg) ==
  IF r.Number = 2 THEN round2_StoreMessage(r, msg) ELSE round4_StoreMessage(r, msg)

Messages(r) == IF r.Number = 2 THEN Messages2(r) ELSE Messages4(r)

\* The driver waits for a message; no call is under way.
Waiting == Call("none", NoMsg, NoError, Nil)

\* A message has been verified and is not stored yet.
Pending == last.op = "VerifyMessage" /\ last.err = NoError

\* A malformed message is dropped; any other failure ends the session.
Structural(err) == err \in {ErrInvalidContent, ErrNilFields}

\* Mutant: the driver does not look the sender up in the roster.
NotInRoster_Never(r, msg) == FALSE

\* The driver expects one message from each other party of the roster.
NotInRoster(r, msg) == msg.From \notin Range(r.PartyIDs)

Unexpected(r, msg) == msg.From = r.SelfID \/ msg.From \in received

Complete(r) == received = Range(OtherPartyIDs(r))

\* ---------------------------------------------------------------- actions

vars == <<proto, startIn, startOut, rnd, received, arrival, last, status, out, poly, pool, pb>>

Init ==
  /\ proto \in {"frost", "cmp/sign", "cmp/keygen", "cmp/sign-legacy", "polynomial",
               "cmp/sign-pool", "pb"}
  /\ startIn = NotStarted
  /\ startOut = NotRun
  /\ rnd \in IF proto = "cmp/sign" THEN {NewRound2(self) : self \in Range(PartyIDs)}
             ELSE IF proto = "cmp/keygen"
               THEN {NewRound4(self, refresh) :
                       self \in Range(PartyIDs), refresh \in BOOLEAN}
             ELSE IF proto = "cmp/sign-legacy"
               THEN {NewRound2Legacy(self) : self \in Range(PartyIDs)}
             ELSE IF proto = "cmp/sign-pool"
               THEN UNION {CompleteRounds2(self) : self \in Range(PartyIDs)}
             ELSE {Nil}
  /\ received = IF proto = "cmp/sign-pool" THEN Range(OtherPartyIDs(rnd)) ELSE {}
  /\ arrival = IF proto = "cmp/sign-pool" THEN OtherPartyIDs(rnd) ELSE <<>>
  /\ last = Waiting
  /\ status = "running"
  /\ out = <<>>
  /\ pool = PoolIdle
  /\ poly \in IF proto = "polynomial"
               THEN {NotEvaluated(f) : f \in Polynomials}
               ELSE {NotEvaluated(<<>>)}
  /\ pb \in IF proto = "pb" THEN {NotChecked(x) : x \in PbMessages}
             ELSE {NotChecked(Nil)}

Running == proto \in {"cmp/sign", "cmp/keygen"} /\ status = "running"

RunningLegacy == proto = "cmp/sign-legacy" /\ status = "running"

\* A caller builds the StartFunc with StartSign and runs it.
DoStartSign ==
  /\ proto = "frost" /\ startIn = NotStarted
  /\ \E result \in Results(PlainKeys), signers \in SignerLists, m \in Digests :
       /\ startIn' = [fn |-> "StartSign", result |-> result, signers |-> signers,
                      messageHash |-> m]
       /\ startOut' = StartSign(result, signers, m)
  /\ UNCHANGED <<proto, pb, poly, pool, arrival, rnd, received, last, status, out>>

\* A caller builds the StartFunc with StartSignTaproot and runs it.
DoStartSignTaproot ==
  /\ proto = "frost" /\ startIn = NotStarted
  /\ \E result \in Results(XOnlyKeys), signers \in SignerLists, m \in Digests :
       /\ startIn' = [fn |-> "StartSignTaproot", result |-> result,
                      signers |-> signers, messageHash |-> m]
       /\ startOut' = StartSignTaproot(result, signers, m)
  /\ UNCHANGED <<proto, pb, poly, pool, arrival, rnd, received, last, status, out>>

\* The driver drops a message from outside the roster, and one it does not
\* expect: from self, or from a party whose message is already stored.
DoDrop ==
  /\ Running /\ last = Waiting
  /\ \E msg \in Messages(rnd) :
       /\ NotInRoster(rnd, msg) \/ Unexpected(rnd, msg)
       /\ last' = Call("Accept", msg,
                       IF NotInRoster(rnd, msg) THEN ErrUnknownParty ELSE ErrDuplicate,
                       Nil)
  /\ UNCHANGED <<proto, pb, poly, pool, arrival, startIn, startOut, rnd, received, status, out>>

\* The driver hands an expected message to the round's VerifyMessage.
DoVerifyMessage ==
  /\ Running /\ last = Waiting
  /\ \E msg \in Messages(rnd) :
       /\ ~NotInRoster(rnd, msg) /\ ~Unexpected(rnd, msg)
       /\ LET v == VerifyMessage(rnd, msg) IN
          /\ rnd' = v.r
          /\ last' = Call("VerifyMessage", msg, v.err, Nil)
          /\ status' = IF v.err = NoError \/ Structural(v.err) THEN status
                       ELSE "aborted"
  /\ UNCHANGED <<proto, pb, poly, pool, arrival, startIn, startOut, received, out>>

\* The driver hands the verified message to the round's StoreMessage.
DoStoreMessage ==
  /\ Running /\ Pending
  /\ LET s == StoreMessage(rnd, last.msg) IN
     /\ rnd' = s.r
     /\ last' = Call("StoreMessage", last.msg, s.err, Nil)
     /\ received' = IF s.err = NoError THEN received \cup {last.msg.From}
                    ELSE received
     /\ arrival' = IF s.err = NoError THEN Append(arrival, last.msg.From)
                   ELSE arrival
     /\ status' = IF s.err = NoError THEN status ELSE "aborted"
  /\ UNCHANGED <<proto, pb, poly, pool, startIn, startOut, out>>

\* With a message dropped or stored the driver waits for the next one.
DoWait ==
  /\ Running \/ RunningLegacy
  /\ last # Waiting /\ ~Pending
  /\ last' = Waiting
  /\ UNCHANGED <<proto, pb, poly, pool, arrival, startIn, startOut, rnd, received, status, out>>

\* With every expected message stored the driver finalizes round 2.
DoFinalize2 ==
  /\ Running /\ last = Waiting /\ rnd.Number = 2 /\ Complete(rnd)
  /\ \E sendErr \in [Range(PartyIDs) -> {NoError} \cup SendErrors],
        order \in Permutations(1..Len(round2_otherIDs(rnd))) :
       LET f == round2_Finalize(rnd, sendErr, order) IN
       /\ rnd' = f.session
       /\ out' = out \o f.sent
       /\ last' = Call("Finalize", NoMsg, f.err,
                       [sendErr |-> sendErr, order |-> order])
       /\ status' = IF f.err = NoError THEN "advanced" ELSE "aborted"
  /\ UNCHANGED <<proto, pb, poly, pool, arrival, startIn, startOut, received>>

\* The cmp-ecdsa driver hands the Sign2 message of a party it still waits for
\* to ProcessMessage; a message that fails ends the session.
DoProcessMessage ==
  /\ RunningLegacy /\ last = Waiting
  /\ \E msg \in MessagesSign2(rnd) :
       /\ msg.From \notin received
       /\ LET p == round2_ProcessMessage(rnd, msg.From, msg.Content) IN
          /\ rnd' = p.r
          /\ last' = Call("ProcessMessage", msg, p.err, Nil)
          /\ received' = IF p.err = NoError THEN received \cup {msg.From}
                         ELSE received
          /\ arrival' = IF p.err = NoError THEN Append(arrival, msg.From)
                        ELSE arrival
          /\ status' = IF p.err = NoError THEN status ELSE "aborted"
  /\ UNCHANGED <<proto, pb, poly, pool, startIn, startOut, out>>

\* With the message of every other party processed the driver has the round
\* generate its messages.
DoGenerateMessages ==
  /\ RunningLegacy /\ last = Waiting /\ Complete(rnd)
  /\ \E sendErr \in [Range(PartyIDs) -> {NoError} \cup SendErrors],
        f \in Permutations(1..Len(PartyIDs)) :
       LET iter == [i \in 1..Len(PartyIDs) |-> PartyIDs[f[i]]]
           g == round2_GenerateMessages(rnd, iter, sendErr)
       IN
       /\ rnd' = g.r
       /\ out' = out \o g.sent
       /\ last' = Call("GenerateMessages", NoMsg, g.err,
                       [sendErr |-> sendErr, iter |-> iter])
       /\ status' = IF g.err = NoError THEN "generated" ELSE "aborted"
  /\ UNCHANGED <<proto, pb, poly, pool, arrival, startIn, startOut, received>>

\* One pass of the loop of TestPolynomial_Evaluate, on any polynomial: x is the
\* integer drawn, expectedResult the scalar made from x^2 + 1.
DoEvaluate ==
  /\ proto = "polynomial"
  /\ \E x \in 0..MaxIndex :
       LET result == x * x + 1
           xScalar == Scalar(x)
       IN poly' = [coefficients |-> poly.coefficients, evaluated |-> TRUE,
                   x |-> x, xScalar |-> xScalar,
                   computedResult |-> PolynomialEvaluate(poly.coefficients, xScalar),
                   expectedResult |-> Scalar(result)]
  /\ UNCHANGED <<proto, pb, pool, arrival, startIn, startOut, rnd, received, last, status, out>>

\* With every expected message stored the driver finalizes round 4.
DoFinalize4 ==
  /\ Running /\ last = Waiting /\ rnd.Number = 4 /\ Complete(rnd)
  /\ \E sendErr \in {NoError} \cup SendErrors :
       LET f == round4_Finalize(rnd, sendErr) IN
       /\ rnd' = f.session
       /\ out' = out \o f.sent
       /\ last' = Call("Finalize", NoMsg, f.err, [sendErr |-> sendErr])
       /\ status' = IF f.err = NoError THEN "advanced" ELSE "aborted"
  /\ UNCHANGED <<proto, pb, poly, pool, arrival, startIn, startOut, received>>

\* A receiver calls IsValid on the message.
DoIsValid ==
  /\ proto = "pb" /\ ~pb.checked
  /\ pb' = [x |-> pb.x, checked |-> TRUE, valid |-> Message_IsValid(pb.x)]
  /\ UNCHANGED <<proto, poly, pool, arrival, startIn, startOut, rnd, received, last, status, out>>

RunningPool == proto = "cmp/sign-pool" /\ status = "running"

\* Finalize of round 2 hands one task for each other party to the pool.
DoParallelize ==
  /\ RunningPool /\ pool = PoolIdle /\ Complete(rnd)
  /\ pool' = PoolStarted(Len(round2_otherIDs(rnd)))
  /\ UNCHANGED <<proto, pb, poly, arrival, startIn, startOut, rnd, received, last, status, out>>

\* A worker runs task i to its end: the MtAs and the proof for peer otherIDs[i],
\* the send of message3, and the result it returns.
DoTask ==
  /\ RunningPool /\ pool.phase = "running"
  /\ \E i \in DOMAIN pool.results, err \in {NoError} \cup SendErrors :
       LET t == round2_mtaTask(rnd, round2_otherIDs(rnd)[i]) IN
       /\ pool.results[i] = Nil
       /\ out' = IF err = NoError THEN Append(out, OutMessage(rnd, t.content, t.to))
                 ELSE out
       /\ pool' = [pool EXCEPT
                     !.results[i] = [err |-> err, DeltaBeta |-> t.DeltaBeta,
                                     ChiBeta |-> t.ChiBeta],
                     !.done = Append(@, i)]
  /\ UNCHANGED <<proto, pb, poly, arrival, startIn, startOut, rnd, received, last, status>>

\* Parallelize returns and Finalize files the results.
DoJoin ==
  /\ RunningPool /\ pool.phase = "running" /\ PoolJoined(pool)
  /\ LET f == round2_join(rnd, pool.results) IN
     /\ rnd' = f.session
     /\ last' = Call("Finalize", NoMsg, f.err, Nil)
     /\ status' = IF f.err = NoError THEN "advanced" ELSE "aborted"
  /\ pool' = [pool EXCEPT !.phase = "joined"]
  /\ UNCHANGED <<proto, pb, poly, arrival, startIn, startOut, received, out>>

Next ==
  \/ DoStartSign
  \/ DoStartSignTaproot
  \/ DoDrop
  \/ DoVerifyMessage
  \/ DoStoreMessage
  \/ DoWait
  \/ DoFinalize2
  \/ DoFinalize4
  \/ DoProcessMessage
  \/ DoGenerateMessages
  \/ DoEvaluate
  \/ DoParallelize
  \/ DoTask
  \/ DoJoin
  \/ DoIsValid

Spec == Init /\ [][Next]_vars

\* ------------------------------------------------- claims: FROST sign start

Started == startIn.fn # "none"

InsufficientSignersError == "sign.StartSign: insufficient number of signers"

\* The key lift of this start did not fail (StartSign lifts nothing).
LiftSucceeded ==
  startIn.fn = "StartSign" \/ LiftX(startIn.result.PublicKey).err = NoError

\* The roster has no repeated party and contains the caller.
RosterValid ==
  /\ ~HasDuplicates(startIn.signers)
  /\ startIn.result.ID \in Range(startIn.signers)

NoRound == startOut.round = Nil /\ startOut.info = Nil

\* The StartFunc of startIn, run on another signer list.
RunWith(signers) ==
  IF startIn.fn = "StartSign"
    THEN StartSign(startIn.result, signers, startIn.messageHash)
    ELSE StartSignTaproot(startIn.result, signers, startIn.messageHash)

\* C1 as stated: a roster of fewer than threshold+1 parties always gets the
\* 'insufficient number of signers' error, with no round, no info and no
\* message; a roster of exactly threshold+1 distinct parties with self is accepted.
C1_Original ==
  Started =>
    /\ Len(startIn.signers) < startIn.result.Threshold + 1 =>
         startOut.err = InsufficientSignersError /\ NoRound /\ out = <<>>
    /\ Len(startIn.signers) = startIn.result.Threshold + 1 /\ RosterValid =>
         startOut.err = NoError /\ startOut.round # Nil

\* C1 amended: a roster of fewer than threshold+1 parties always gets an error
\* with no round, no info and no message; the error is 'insufficient number of
\* signers' when the key lift succeeded and the roster has no repeated party
\* and contains self; a roster of exactly threshold+1 distinct parties with
\* self is accepted and yields round 1 when the key lift succeeded.
C1_UnderThreshold ==
  Started =>
    /\ Len(startIn.signers) < startIn.result.Threshold + 1 =>
         startOut.err # NoError /\ NoRound /\ out = <<>>
    /\ Len(startIn.signers) < startIn.result.Threshold + 1
         /\ LiftSucceeded /\ RosterValid =>
         startOut.err = InsufficientSignersError
    /\ Len(startIn.signers) = startIn.result.Threshold + 1
         /\ LiftSucceeded /\ RosterValid =>
         /\ startOut.err = NoError /\ startOut.round # Nil /\ startOut.info # Nil
         /\ startOut.round.Helper.partyIDs = SortIDs(startIn.signers)

C1_Witness ==
  /\ Started /\ LiftSucceeded /\ RosterValid
  /\ startIn.result.Threshold >= 1
  /\ Len(startIn.signers) = startIn.result.Threshold
  /\ startOut.err = InsufficientSignersError

\* C2: a signer list that names a party twice makes the StartFunc fail with no
\* round and no info, also when it has threshold+1 entries or more; the list
\* handed to the helper still has every entry (nothing was removed).
C2_DuplicateFails ==
  Started /\ HasDuplicates(startIn.signers) =>
    /\ startOut.err # NoError /\ NoRound
    /\ startOut.call.called => Len(startOut.call.partyIDs) = Len(startIn.signers)

C2_Witness ==
  /\ Started /\ LiftSucceeded /\ HasDuplicates(startIn.signers)
  /\ startIn.result.ID \in Range(startIn.signers)
  /\ Len(startIn.signers) >= startIn.result.Threshold + 1
  /\ Cardinality(Range(startIn.signers)) >= startIn.result.Threshold + 1
  /\ startOut.err # NoError /\ NoRound

\* C3: when the caller's own ID is not in the signer list, the StartFunc returns
\* an error and no round, whatever the list's size and the threshold.
C3_SelfMissingFails ==
  Started /\ startIn.result.ID \notin Range(startIn.signers) =>
    startOut.err # NoError /\ NoRound

C3_Witness ==
  /\ Started /\ LiftSucceeded /\ ~HasDuplicates(startIn.signers)
  /\ startIn.result.ID \notin Range(startIn.signers)
  /\ Len(startIn.signers) >= startIn.result.Threshold + 1
  /\ startOut.err # NoError /\ NoRound

\* C4: StartSignTaproot with a key that does not lift returns the lift's error,
\* no round and no info, without creating the helper, whatever the roster and
\* the threshold are; with a key that lifts it returns what StartSign returns on
\* the lifted key, with the Taproot flag set in the round and in the helper.
C4_TaprootLift ==
  startIn.fn = "StartSignTaproot" =>
    LET lift == LiftX(startIn.result.PublicKey)
        plain == StartSign(normalResult(startIn.result), startIn.signers,
                           startIn.messageHash)
    IN
    /\ lift.err # NoError =>
         startOut = StartResult(Nil, Nil, lift.err, NoCall)
    /\ lift.err = NoError =>
         /\ startOut.err = plain.err
         /\ (startOut.round = Nil) = (plain.round = Nil)
         /\ startOut.round # Nil =>
              /\ startOut.round =
                   [plain.round EXCEPT !.taproot = TRUE, !.Helper.aux.Bytes = <<1>>]
              /\ startOut.info = [plain.info EXCEPT !.aux.Bytes = <<1>>]
              /\ startOut.round.Y = lift.point

C4_Witness ==
  /\ startIn.fn = "StartSignTaproot" /\ ~LiftSucceeded
  /\ RosterValid /\ Len(startIn.signers) >= startIn.result.Threshold + 1
  /\ startOut.err = LiftX(startIn.result.PublicKey).err /\ NoRound

\* C5: every reordering of the signer list hands the same ascending roster to
\* the helper and gives the same result (round, info, error).
C5_PermutationInvariant ==
  Started =>
    /\ startOut.call.called => IsSorted(startOut.call.partyIDs)
    /\ \A f \in Permutations(1..Len(startIn.signers)) :
         RunWith([i \in 1..Len(startIn.signers) |-> startIn.signers[f[i]]]) = startOut

C5_Witness ==
  /\ Started /\ Len(startIn.signers) = 3
  /\ startIn.signers[1] > startIn.signers[2] /\ startIn.signers[2] > startIn.signers[3]
  /\ startOut.err = NoError /\ startOut.round # Nil

\* C6: the helper is always created with protocol ID "frost/sign-threshold", 3
\* rounds and one byte under "Taproot Flag", 1 for StartSignTaproot and 0 for
\* StartSign; the same start with the other mode hands other SSID inputs to the
\* helper; the round's taproot field agrees with the flag byte.
C6_TaprootFlagBound ==
  Started /\ startOut.call.called =>
    LET isTaproot == startIn.fn = "StartSignTaproot"
        result == IF isTaproot THEN normalResult(startIn.result) ELSE startIn.result
        other == startSignCommon(~isTaproot, NoError, result, startIn.signers,
                                 startIn.messageHash)
    IN
    /\ startOut.call.protocolID = "frost/sign-threshold"
    /\ startOut.call.rounds = 3
    /\ startOut.call.aux.TheDomain = "Taproot Flag"
    /\ startOut.call.aux.Bytes = <<IF isTaproot THEN 1 ELSE 0>>
    /\ other.call # startOut.call
    /\ startOut.round # Nil =>
         /\ startOut.round.taproot = isTaproot
         /\ startOut.round.taproot = (startOut.round.Helper.aux.Bytes[1] = 1)
         /\ startOut.round.Helper.protocolID = "frost/sign-threshold"
         /\ startOut.round.Helper.finalRound = 3

C6_Witness ==
  /\ startIn.fn = "StartSignTaproot" /\ startOut.round # Nil
  /\ startOut.round.taproot /\ startOut.call.aux.Bytes = <<1>>
\* ------------------------------------------ claims: CMP rounds 2 and 4

\* C7: a call of VerifyMessage (round 2 of sign, round 4 of keygen), accepting
\* or rejecting, leaves every field of the round as it was; the round changes
\* only in a call of StoreMessage or Finalize.
C7_VerifyMessagePure ==
  [][(proto \in {"cmp/sign", "cmp/keygen"}) =>
       ((last'.op = "VerifyMessage" => rnd' = rnd)
        /\ (rnd' # rnd => last'.op \in {"StoreMessage", "Finalize"}))]_vars

C7_Witness ==
  /\ proto = "cmp/sign" /\ rnd.Number = 2
  /\ last.op = "VerifyMessage" /\ last.err = NoError
  /\ MapGet(rnd.K, last.msg.From) = Nil

\* The content of the message is nil or not the round's content type.
C8_InvalidContent(r, msg) ==
  \/ msg.Content = Nil
  \/ msg.Content.type # (IF r.Number = 2 THEN "message2" ELSE "message4")
  \/ msg.Content.body = Nil

\* A required field of the content is nil.
C8_NilField(r, msg) ==
  LET body == msg.Content.body IN
  IF r.Number = 2 THEN body.ProofEnc = Nil \/ body.G = Nil \/ body.K = Nil
  ELSE body.Mod = Nil \/ body.Prm = Nil \/ body.Share = Nil

\* A zero-knowledge proof of the content does not verify.
C8_ProofFails(r, msg) ==
  LET body == msg.Content.body
      fork == [state |-> r.hash, id |-> msg.From]
  IN
  IF r.Number = 2
    THEN ~zkencVerify(body.ProofEnc, r.group, fork,
                      [K |-> body.K, Prover |-> r.Paillier[msg.From],
                       Aux |-> r.Pedersen[msg.To]])
    ELSE \/ ~zkmodVerify(body.Mod, [N |-> r.NModulus[msg.From]], fork)
         \/ ~zkprmVerify(body.Prm, [N |-> r.NModulus[msg.From], S |-> r.S[msg.From],
                                    T |-> r.T[msg.From]], fork)

C8_ProofFailures ==
  {"failed to validate enc proof for K", "failed to validate mod proof",
   "failed to validate prm proof"}

\* C8: VerifyMessage returns InvalidContent for a content that is nil or not the
\* round's; otherwise NilFields when a required field is nil; otherwise a proof
\* failure when a proof does not verify; and no error exactly when none of the
\* three holds.
C8_FailureOrder ==
  last.op = "VerifyMessage" =>
    LET class == IF C8_InvalidContent(rnd, last.msg) THEN "invalid"
                 ELSE IF C8_NilField(rnd, last.msg) THEN "nil"
                 ELSE IF C8_ProofFails(rnd, last.msg) THEN "proof"
                 ELSE "good"
    IN
    /\ class = "invalid" => last.err = ErrInvalidContent
    /\ class = "nil" => last.err = ErrNilFields
    /\ class = "proof" => last.err \in C8_ProofFailures
    /\ (class = "good") = (last.err = NoError)

C8_Witness ==
  /\ proto = "cmp/keygen" /\ last.op = "VerifyMessage"
  /\ last.err = "failed to validate prm proof"

\* C9: after a Finalize of round 2 that succeeded, the out channel holds one
\* direct message for each other party and none for self, each with the
\* sender's Gamma share, the Delta and Chi MtA (D, F, proof) and the log* proof
\* made against that recipient's K, Paillier key and Pedersen parameters; the
\* round 3 returned has one DeltaShareBeta and one ChiShareBeta entry for each
\* other party.
C9_FinalizeEmits ==
  proto \in {"cmp/sign", "cmp/sign-pool"} /\ last.op = "Finalize"
    /\ last.err = NoError =>
    LET r == rnd.round2
        self == r.SelfID
        others == Range(r.PartyIDs) \ {self}
    IN
    /\ rnd.Number = 3
    /\ Len(out) = Cardinality(others)
    /\ {out[i].To : i \in 1..Len(out)} = others
    /\ DOMAIN rnd.DeltaShareBeta = others
    /\ DOMAIN rnd.ChiShareBeta = others
    /\ \A i \in 1..Len(out) :
         LET j == out[i].To
             body == out[i].Content.body
         IN
         /\ out[i].From = self /\ j # self /\ j # Broadcast /\ ~out[i].Broadcast
         /\ out[i].Content.type = "message3"
         /\ body.BigGammaShare = r.BigGammaShare[self]
         /\ body.DeltaD.x = r.GammaShare /\ body.ChiD.x = r.SecretECDSA
         /\ \A mta \in {[D |-> body.DeltaD, F |-> body.DeltaF, P |-> body.DeltaProof],
                        [D |-> body.ChiD, F |-> body.ChiF, P |-> body.ChiProof]} :
              /\ mta.D.K = r.K[j] /\ mta.D.pk = r.Paillier[j]
              /\ mta.P.Kv = r.K[j] /\ mta.P.Dv = mta.D /\ mta.P.Fp = mta.F
              /\ mta.P.Verifier = r.Paillier[j] /\ mta.P.Aux = r.Pedersen[j]
              /\ mta.P.Prover = r.Paillier[self]
         /\ body.DeltaD.beta = rnd.DeltaShareBeta[j]
         /\ body.ChiD.beta = rnd.ChiShareBeta[j]
         /\ body.ProofLog.C = r.G[self] /\ body.ProofLog.X = r.BigGammaShare[self]
         /\ body.ProofLog.Prover = r.Paillier[self]
         /\ body.ProofLog.Aux = r.Pedersen[j]

C9_Witness ==
  /\ proto = "cmp/sign" /\ last.op = "Finalize" /\ last.err = NoError /\ rnd.Number = 3
  /\ Len(out) = 2 /\ out[1].To > out[2].To
  /\ rnd.round2.K[out[1].To] # rnd.round2.K[out[2].To]

\* C10: in round 2 a party whose message is stored stays stored and its K and G
\* stay those of that message: a later message from it is dropped as a
\* duplicate and changes nothing, and StoreMessage is called for a sender at
\* most once.
C10_OneMessagePerParty ==
  [][proto = "cmp/sign" /\ rnd.Number = 2 =>
       /\ received \subseteq received'
       /\ \A j \in received :
            rnd'.Number = 2 =>
              /\ MapGet(rnd'.K, j) = MapGet(rnd.K, j)
              /\ MapGet(rnd'.G, j) = MapGet(rnd.G, j)
       /\ last'.op = "StoreMessage" => last'.msg.From \notin received
       /\ last = Waiting /\ last'.op # "Finalize" /\ last'.msg.From \in received =>
            last'.op = "Accept" /\ last'.err = ErrDuplicate /\ rnd' = rnd]_vars

C10_Witness ==
  /\ proto = "cmp/sign" /\ rnd.Number = 2
  /\ last.op = "Accept" /\ last.err = ErrDuplicate
  /\ last.msg.From \in received
  /\ VerifyMessage(rnd, last.msg).err = NoError
  /\ last.msg.Content.body.K # rnd.K[last.msg.From]

\* The round 2 of the session: the current round, or the one round 3 holds.
Round2Of(r) == IF r.Number = 3 THEN r.round2 ELSE r

\* C11: a round 2 message whose sender is not in the roster is dropped by the
\* driver with an error: it is neither verified nor stored, and in every state
\* the keys of K and G and the stored senders are parties of the roster.
C11_OutsiderDropped ==
  proto = "cmp/sign" =>
    LET r == Round2Of(rnd) IN
    /\ DOMAIN r.K \subseteq Range(r.PartyIDs)
    /\ DOMAIN r.G \subseteq Range(r.PartyIDs)
    /\ received \subseteq Range(r.PartyIDs)
    /\ last.op \in {"Accept", "VerifyMessage", "StoreMessage"}
         /\ last.msg.From \notin Range(r.PartyIDs) =>
         last.op = "Accept" /\ last.err = ErrUnknownParty

C11_Witness ==
  /\ proto = "cmp/sign" /\ rnd.Number = 2
  /\ last.op = "Accept" /\ last.err = ErrUnknownParty
  /\ last.msg.From \notin Range(rnd.PartyIDs)
  /\ VerifyMessage(rnd, last.msg).err = NoError
  /\ received # {}

\* C12: the echo hash GenerateMessages computes is the digest of the session
\* transcript followed by (K, G) of every party in roster order, whatever the
\* order in which the messages arrived and the order in which the map of
\* parties is walked; every Sign3 message it emitted carries that echo hash.
C12_EchoHashCanonical ==
  proto = "cmp/sign-legacy" /\ last.op = "GenerateMessages" =>
    LET n == Len(rnd.PartyIDs)
        base == Len(rnd.hash)
        d == rnd.EchoHash.digest
    IN
    /\ Len(d) = base + 2 * n
    /\ \A i \in 1..base : d[i] = rnd.hash[i]
    /\ \A i \in 1..n :
         /\ d[base + 2 * i - 1] = rnd.Parties[rnd.PartyIDs[i]].K
         /\ d[base + 2 * i] = rnd.Parties[rnd.PartyIDs[i]].G
    /\ \A k \in 1..Len(out) :
         /\ out[k].Content.type = "Sign3"
         /\ out[k].Content.body.EchoHash = rnd.EchoHash
    /\ last.err = NoError =>
         {out[k].To : k \in 1..Len(out)} = Range(rnd.PartyIDs) \ {rnd.SelfID}

C12_Witness ==
  /\ proto = "cmp/sign-legacy" /\ last.op = "GenerateMessages"
  /\ last.err = NoError /\ Len(out) = 2
  /\ arrival[1] > arrival[2]
  /\ ~IsSorted(last.env.iter)
  /\ rnd.Parties[arrival[1]].K # rnd.Parties[arrival[2]].K

RECURSIVE Power(_, _)
Power(b, e) == IF e = 0 THEN 1 ELSE b * Power(b, e - 1)

\* c_0 + c_1 x + ... + c_(n-1) x^(n-1) over the integers, term by term.
RECURSIVE PowerSum(_, _, _)
PowerSum(f, x, n) ==
  IF n = 0 THEN 0 ELSE PowerSum(f, x, n - 1) + f[n].s * Power(x, n - 1)

C14_ProofFor(r, from, to, K) ==
  [zk |-> "enc", K |-> K, Prover |-> PaillierOf(from), Aux |-> PedersenOf(to),
   hash |-> [state |-> r.hash, id |-> from]]

\* C14: round 2 accepts a message exactly when its enc proof is the one for the
\* message's K under the sender's Paillier key, the Pedersen parameters of the
\* message's recipient and the sender's transcript fork; a proof for another
\* recipient, under another prover's key or on another fork is rejected with
\* the proof error. ProcessMessage of the cmp-ecdsa API does the same with the
\* processing party as the recipient.
C14_ProofBoundToTriple ==
  /\ proto = "cmp/sign" /\ last.op = "VerifyMessage"
       /\ ~C8_InvalidContent(rnd, last.msg) /\ ~C8_NilField(rnd, last.msg) =>
       LET body == last.msg.Content.body
           bound == body.ProofEnc =
                      C14_ProofFor(rnd, last.msg.From, last.msg.To, body.K)
       IN
       /\ bound => last.err = NoError
       /\ ~bound => last.err = "failed to validate enc proof for K"
  /\ proto = "cmp/sign" /\ last.op = "StoreMessage" =>
       last.msg.Content.body.ProofEnc =
         C14_ProofFor(Round2Of(rnd), last.msg.From, last.msg.To,
                      last.msg.Content.body.K)
  /\ proto = "cmp/sign-legacy" /\ last.op = "ProcessMessage" =>
       LET body == last.msg.Content.body
           bound == body.ProofEnc =
                      C14_ProofFor(rnd, last.msg.From, rnd.SelfID, body.K)
       IN
       /\ bound => last.err = NoError /\ rnd.Parties[last.msg.From].K = body.K
       /\ ~bound => /\ last.err = ErrRound2ZKEnc
                    /\ rnd.Parties[last.msg.From].K = Nil

C14_Witness ==
  /\ proto = "cmp/sign" /\ last.op = "VerifyMessage"
  /\ last.err = "failed to validate enc proof for K"
  /\ last.msg.To # rnd.SelfID
  /\ last.msg.Content.body.ProofEnc =
       C14_ProofFor(rnd, last.msg.From, rnd.SelfID, last.msg.Content.body.K)

\* C15: StoreMessage of round 2 for a verified message from party j returns no
\* error, sets K[j] and G[j] to the ciphertexts of the message, and leaves
\* every other entry of K and G (the party's own included) and every other
\* field of the round as it was.
C15_StoreMessageFrame ==
  [][proto = "cmp/sign" /\ last'.op = "StoreMessage" =>
       LET j == last'.msg.From
           body == last'.msg.Content.body
       IN
       /\ last.op = "VerifyMessage" /\ last.err = NoError /\ last.msg = last'.msg
       /\ last'.err = NoError
       /\ DOMAIN rnd' = DOMAIN rnd
       /\ \A f \in DOMAIN rnd \ {"K", "G"} : rnd'[f] = rnd[f]
       /\ DOMAIN rnd'.K = DOMAIN rnd.K \cup {j}
       /\ DOMAIN rnd'.G = DOMAIN rnd.G \cup {j}
       /\ rnd'.K[j] = body.K /\ rnd'.G[j] = body.G
       /\ \A i \in DOMAIN rnd.K \ {j} : rnd'.K[i] = rnd.K[i]
       /\ \A i \in DOMAIN rnd.G \ {j} : rnd'.G[i] = rnd.G[i]
       /\ rnd.SelfID \in DOMAIN rnd.K \ {j} /\ rnd.SelfID \in DOMAIN rnd.G \ {j}]_vars

C15_Witness ==
  /\ proto = "cmp/sign" /\ rnd.Number = 2 /\ last.op = "StoreMessage"
  /\ Cardinality(received) = 2
  /\ rnd.K[last.msg.From] = last.msg.Content.body.K
  /\ \E i \in received : rnd.K[i] # rnd.K[last.msg.From]
  /\ rnd.K[rnd.SelfID] = Ciphertext(0)

\* C16: whatever the order in which the pool's tasks run and complete, Finalize
\* of round 2 returns only when every task has returned; what it returns and
\* the set of (recipient, content) pairs on the out channel are those of the
\* tasks run one after the other in roster order; and the betas of the task
\* for peer j are filed under j in DeltaShareBeta and ChiShareBeta.
C16_DeterministicJoin ==
  proto = "cmp/sign-pool" =>
    LET r == Round2Of(rnd)
        others == OtherPartyIDs(r)
        n == Len(others)
    IN
    /\ rnd.Number = 3 \/ last.op = "Finalize" =>
         /\ pool.phase = "joined"
         /\ \A i \in 1..n : pool.results[i] # Nil
         /\ Range(pool.done) = 1..n
    /\ pool.phase = "joined" =>
         LET sendErr == [j \in Range(r.PartyIDs) |->
                           IF j = r.SelfID THEN NoError
                           ELSE pool.results[CHOOSE i \in 1..n : others[i] = j].err]
             seq == round2_Finalize(r, sendErr, [i \in 1..n |-> i])
         IN
         /\ rnd = seq.session /\ last.err = seq.err
         /\ Len(out) = Len(seq.sent)
         /\ {<<out[k].To, out[k].Content>> : k \in 1..Len(out)} =
              {<<seq.sent[k].To, seq.sent[k].Content>> : k \in 1..Len(seq.sent)}
         /\ last.err = NoError =>
              /\ DOMAIN rnd.DeltaShareBeta = Range(others)
              /\ DOMAIN rnd.ChiShareBeta = Range(others)
              /\ \A j \in Range(others) :
                   /\ rnd.DeltaShareBeta[j] = [beta |-> "Delta", peer |-> j]
                   /\ rnd.ChiShareBeta[j] = [beta |-> "Chi", peer |-> j]

C16_Witness ==
  /\ proto = "cmp/sign-pool" /\ pool.phase = "joined" /\ rnd.Number = 3
  /\ pool.done = <<2, 1>>
  /\ Len(out) = 2 /\ out[1].To > out[2].To
  /\ out[1].Content # out[2].Content

\* C17: when a send of Finalize of round 2 fails, Finalize returns the round 2
\* it was called on, unchanged, with the error of the failing peer that comes
\* first in the roster, whatever the order in which the sends were made, and
\* the session does not advance; when no send fails it returns round 3.
C17_SendFailure ==
  [][(proto \in {"cmp/sign", "cmp/sign-pool"}) /\ last'.op = "Finalize" =>
       LET others == OtherPartyIDs(rnd)
           errOf(i) == IF proto = "cmp/sign-pool" THEN pool'.results[i].err
                       ELSE last'.env.sendErr[others[i]]
           failing == {i \in 1..Len(others) : errOf(i) # NoError}
       IN
       /\ failing # {} =>
            /\ rnd' = rnd /\ rnd'.Number = 2
            /\ status' = "aborted"
            /\ \E i \in failing :
                 /\ last'.err = errOf(i)
                 /\ \A k \in failing : others[i] <= others[k]
       /\ failing = {} =>
            last'.err = NoError /\ rnd'.Number = 3 /\ status' = "advanced"]_vars

C17_Witness ==
  /\ proto = "cmp/sign" /\ last.op = "Finalize" /\ rnd.Number = 2
  /\ last.env.order = <<2, 1>>
  /\ LET others == OtherPartyIDs(rnd) IN
     /\ last.env.sendErr[others[1]] # NoError
     /\ last.env.sendErr[others[2]] # NoError
     /\ last.env.sendErr[others[1]] # last.env.sendErr[others[2]]
     /\ last.err = last.env.sendErr[others[1]]
  /\ status = "aborted"

\* The point F_j(i) that a share of party j for party i must act on the base
\* to give: the product of the coefficients A_k of j's polynomial in the
\* exponent, each raised to i^k.
RECURSIVE C18_Expected(_, _, _)
C18_Expected(F, i, n) ==
  IF n = 0 THEN 1
  ELSE (C18_Expected(F, i, n - 1) *
        PowMod(F[n].pt, Power(i, n - 1) % GroupOrder, GroupModulus)) % GroupModulus

C18_VSSHolds(r, j, share) ==
  PowMod(GroupBase, share.s, GroupModulus) =
    C18_Expected(r.VSSPolynomials[j], r.SelfID, Len(r.VSSPolynomials[j]))

\* C18: StoreMessage of keygen round 4 records the share of party j exactly
\* when the ciphertext decrypts, the plaintext lies in [0, group order) and the
\* share acting on the base is j's VSS polynomial at the receiver's ID;
\* otherwise it returns an error and leaves the round as it was. Every share in
\* ShareReceived satisfies the VSS equation of its sender.
C18_ShareChecked ==
  /\ [](proto = "cmp/keygen" /\ rnd.Number = 4 =>
          \A j \in DOMAIN rnd.ShareReceived :
            C18_VSSHolds(rnd, j, rnd.ShareReceived[j]))
  /\ [][proto = "cmp/keygen" /\ last'.op = "StoreMessage" =>
         LET j == last'.msg.From
             ct == last'.msg.Content.body.Share
             good == /\ ct.valid
                     /\ ct.pt >= 0 /\ ct.pt < GroupOrder
                     /\ C18_VSSHolds(rnd, j, [s |-> ct.pt % GroupOrder])
         IN
         /\ good = (last'.err = NoError)
         /\ ~good => rnd' = rnd /\ j \notin DOMAIN rnd'.ShareReceived
         /\ good => /\ rnd'.ShareReceived[j] = [s |-> ct.pt]
                    /\ DOMAIN rnd'.ShareReceived = DOMAIN rnd.ShareReceived \cup {j}
                    /\ \A i \in DOMAIN rnd.ShareReceived :
                         rnd'.ShareReceived[i] = rnd.ShareReceived[i]
         /\ ~ct.valid => last'.err = "paillier: failed to decrypt"
         /\ ct.valid /\ (ct.pt < 0 \/ ct.pt >= GroupOrder) =>
              last'.err = "decrypted share is not in correct range"
         /\ ct.valid /\ ct.pt >= 0 /\ ct.pt < GroupOrder /\ ~good =>
              last'.err = "failed to validate VSS share"]_vars

C18_Witness ==
  /\ proto = "cmp/keygen" /\ last.op = "StoreMessage"
  /\ last.err = "decrypted share is not in correct range"
  /\ last.msg.Content.body.Share.pt >= GroupOrder
  /\ C18_VSSHolds(rnd, last.msg.From,
                  [s |-> last.msg.Content.body.Share.pt % GroupOrder])
  /\ last.msg.From \notin DOMAIN rnd.ShareReceived
  /\ received # {}

RECURSIVE SeqSum(_)
SeqSum(q) == IF q = <<>> THEN 0 ELSE Head(q) + SeqSum(Tail(q))

RECURSIVE SeqProduct(_)
SeqProduct(q) == IF q = <<>> THEN 1 ELSE Head(q) * SeqProduct(Tail(q))

\* C19: the config Finalize of keygen round 4 builds has as its secret the
\* previous secret (zero when there is none) plus the shares received from all
\* parties of the roster, and as the public share of each party j the sum of
\* all VSS polynomials at j (plus j's previous public share in a refresh); the
\* secret acting on the base point is the party's own public share.
C19_SecretMatchesPublic ==
  proto = "cmp/keygen" /\ rnd.Number = 5 =>
    LET r == rnd.round4
        cfg == rnd.UpdatedConfig
        ids == r.PartyIDs
        n == Len(ids)
        refresh == r.PreviousSecretECDSA # Nil
    IN
    /\ cfg.ECDSA.s =
         ((IF refresh THEN r.PreviousSecretECDSA.s ELSE 0) +
          SeqSum([i \in 1..n |-> r.ShareReceived[ids[i]].s])) % GroupOrder
    /\ DOMAIN cfg.Public = Range(ids)
    /\ \A j \in Range(ids) :
         cfg.Public[j].ECDSA.pt =
           (SeqProduct([i \in 1..n |->
                          C18_Expected(r.VSSPolynomials[ids[i]], j,
                                       Len(r.VSSPolynomials[ids[i]]))]) *
            (IF refresh THEN r.PreviousPublicSharesECDSA[j].pt ELSE 1)) % GroupModulus
    /\ PowMod(GroupBase, cfg.ECDSA.s, GroupModulus) = cfg.Public[r.SelfID].ECDSA.pt
    /\ cfg.ID = r.SelfID

C19_Witness ==
  /\ proto = "cmp/keygen" /\ rnd.Number = 5
  /\ rnd.round4.PreviousSecretECDSA # Nil
  /\ arrival[1] > arrival[2]
  /\ rnd.UpdatedConfig.ECDSA # rnd.round4.PreviousSecretECDSA
  /\ ActOnBase(rnd.UpdatedConfig.ECDSA) =
       rnd.UpdatedConfig.Public[rnd.round4.SelfID].ECDSA

\* C20: a Finalize of keygen round 4 whose send succeeds puts exactly one
\* message on the out channel, a broadcast with the Schnorr proof made on the
\* transcript that has absorbed the updated config and the party's ID, and
\* only then does the rolling transcript absorb the updated config; when the
\* send fails Finalize returns the round 4 it was called on with the error,
\* the transcript as it was, and nothing on the out channel.
C20_BroadcastThenHash ==
  [][proto = "cmp/keygen" /\ last'.op = "Finalize" =>
       /\ rnd.Number = 4
       /\ last'.err = last'.env.sendErr
       /\ last'.err # NoError => rnd' = rnd /\ out' = out /\ status' = "aborted"
       /\ last'.err = NoError =>
            LET cfg == rnd'.UpdatedConfig
                m == out'[Len(out')]
            IN
            /\ rnd'.Number = 5
            /\ out' = Append(out, m)
            /\ m.From = rnd.SelfID /\ m.To = Broadcast /\ m.Broadcast
            /\ m.Content.type = "message5"
            /\ m.Content.body.SchnorrResponse.hash = rnd.hash \o <<cfg, rnd.SelfID>>
            /\ m.Content.body.SchnorrResponse.public = cfg.Public[rnd.SelfID].ECDSA
            /\ m.Content.body.SchnorrResponse.secret = cfg.ECDSA
            /\ rnd'.round4.hash = rnd.hash \o <<cfg>>
            /\ rnd'.round4 = [rnd EXCEPT !.hash = rnd'.round4.hash]]_vars

C20_Witness ==
  /\ proto = "cmp/keygen" /\ last.op = "Finalize" /\ last.err # NoError
  /\ rnd.Number = 4 /\ rnd.hash = <<"ssid">> /\ out = <<>>
  /\ Complete(rnd)

\* C21: IsValid returns true exactly when the message's type is the type of
\* one of the content fields (refresh, sign, abort, old keygen, old refresh)
\* and that content field is populated; a message of an unknown type, and one
\* whose populated content is not that of its type, is reported invalid.
C21_IsValidIffTypedContent ==
  proto = "pb" /\ pb.checked =>
    LET x == pb.x
        typed == {f \in ContentFields : x.Type = "Type" \o f}
    IN
    /\ pb.valid = (\E f \in typed : f \in DOMAIN x.Content)
    /\ typed = {} => ~pb.valid
    /\ (\A f \in DOMAIN x.Content : f \notin typed) => ~pb.valid
    /\ Cardinality(typed) <= 1

C21_Witness ==
  /\ proto = "pb" /\ pb.checked /\ ~pb.valid
  /\ pb.x.Type = "TypeSign2"
  /\ DOMAIN pb.x.Content = {"Sign1", "Sign3"}

====
